---- MODULE Spec2Model ----
(***************************************************************************)
(* Greedy weekly timetable allocation of src/main.py: the slot catalog,    *)
(* find_free_blocks, place_session and the three scheduling loops of       *)
(* create_timetable, run for the first-half and then the second-half       *)
(* course list.                                                            *)
(*                                                                         *)
(* Hours are counted in minutes (1.5 h = 90), so that the float arithmetic *)
(* of the code on halves and quarters of an hour is exact here as there.   *)
(***************************************************************************)
EXTENDS Integers, Sequences, FiniteSets, TLC

VARIABLES
    slot_keys,        \* line 14: ordered slot labels "HH:MM-HH:MM"
    time_durations,   \* line 26: label -> duration (minutes)
    courses_df,       \* line 46: the course records, in file order
    classrooms,       \* line 48: classroom pool
    labs,             \* line 49: lab pool
    room_allocations, \* line 74/190: course code -> room
    tt_frame,         \* line 187: day -> slot label -> occupant tag ("" = empty)
    faculty_schedule, \* line 188: day -> list of faculty names placed that day
    mandatory,        \* line 193/202: the courses scheduled in this run
    half,             \* which create_timetable call is running (lines 264, 265)
    pc,               \* position in create_timetable
    ci,               \* index in mandatory of the course of the loop at line 204
    ltp,              \* <<L, T, P>> of the current course (line 210), in hours
    hours_remaining,  \* lecture/tutorial/practical_hours_remaining (minutes)
    attempts,         \* line 215/227/238
    day_idx,          \* index in week_days of the for loop at 218/230/241
    call,             \* the place_session call made by the last step, if any,
                      \* with its result and the loop iteration (ci) making it
    sessions          \* the successful place_session calls of this run, in order

vars == <<slot_keys, time_durations, courses_df, classrooms, labs,
          room_allocations, tt_frame, faculty_schedule, mandatory, half, pc,
          ci, ltp, hours_remaining, attempts, day_idx, call, sessions>>

config == <<slot_keys, time_durations, courses_df, classrooms, labs>>

-----------------------------------------------------------------------------
(* Program constants *)

week_days == <<"Monday", "Tuesday", "Wednesday", "Thursday", "Friday">>

excluded_slots == {"07:30-09:00", "13:15-14:00", "17:30-18:30"}

MAX_ATTEMPTS == 10

MinutesPerHour == 60

\* min(1.5, .) of line 221 and min(2, .) of line 244, in minutes
LectureBlock == 90

PracticalBlock == 120

TutorialBlock == 60

Days == {week_days[i] : i \in DOMAIN week_days}

-----------------------------------------------------------------------------
(* Bounds of the model *)

MaxCourses == 2

-----------------------------------------------------------------------------
(* Text conversions, computed by table over the texts the inputs use *)

\* str.strip()
Strip(s) ==
    CASE s = " A "     -> "A"
      [] s = " "       -> ""
      [] s = " 08:00"  -> "08:00"
      [] s = "11:00 "  -> "11:00"
      [] s = " 2"      -> "2"
      [] OTHER         -> s

\* int(text) for the texts of the inputs; -1 stands for ValueError
ParseInt(s) ==
    CASE s = "0"  -> 0
      [] s = "00" -> 0
      [] s = "1"  -> 1
      [] s = "2"  -> 2
      [] s = "3"  -> 3
      [] s = "4"  -> 4
      [] s = "5"  -> 5
      [] s = "07" -> 7
      [] s = "08" -> 8
      [] s = "09" -> 9
      [] s = "10" -> 10
      [] s = "11" -> 11
      [] s = "13" -> 13
      [] s = "14" -> 14
      [] s = "15" -> 15
      [] s = "16" -> 16
      [] s = "30" -> 30
      [] OTHER    -> -1

Digits2 == {"00", "07", "08", "09", "10", "11", "13", "14", "15", "16", "30"}

\* "HH:MM".split(":"), then int of both parts (lines 22, 23)
SplitTime(t) ==
    CHOOSE p \in Digits2 \X Digits2 : p[1] \o ":" \o p[2] = t

Times == {h \o ":" \o m : h \in Digits2, m \in {"00", "15", "30"}}

\* slot.split("-") (line 21)
SplitSlot(slot) ==
    CHOOSE p \in Times \X Times : p[1] \o "-" \o p[2] = slot

calc_slot_duration(slot) ==
    LET se == SplitSlot(slot)
        a  == SplitTime(se[1])
        b  == SplitTime(se[2])
    IN  (ParseInt(b[1]) * MinutesPerHour + ParseInt(b[2]))
        - (ParseInt(a[1]) * MinutesPerHour + ParseInt(a[2]))

-----------------------------------------------------------------------------
(* The input files the model draws from.  A course's "L-T-P-S-C" text is  *)
(* held as the list of its fields between the "-" signs.                   *)

Slot(a, b) == [start |-> a, end |-> b]

Room(id, type) == [Room_ID |-> id, Type |-> type]

Course(code, faculty, fields, elective, sem) ==
    [Course_Code |-> code, Faculty |-> faculty, LTPSC |-> fields,
     Elective |-> elective, Semester_Half |-> sem]

SlotFiles ==
    { << Slot(" 08:00", "09:00"), Slot("09:00", "10:00"),
         Slot("10:00", "11:00 ") >>,
      << Slot("07:30", "09:00"), Slot("09:00", "10:00"),
         Slot("10:00", "10:30"), Slot("13:15", "14:00"),
         Slot("14:00", "15:30"), Slot("15:30", "16:00") >> }

RoomFiles ==
    { << >>,
      << Room("R1", "Classroom") >>,
      << Room("L1", "lab") >>,
      << Room("R1", "classroom"), Room("R2", "CLASSROOM"),
         Room("L1", "Lab"), Room("S1", "Seminar") >> }

CoursePool ==
    { Course("CODE", "X",   <<"2", "0", "0", "0", "2">>,  "0", "0"),
      Course("C1",   " A ", <<"4", "1", "2", "0", "5">>,  "0", "1"),
      Course("C2",   "",    <<"1", "0", "2", "0", "2">>,  "0", "0"),
      Course("C3",   "A",   <<"3", "1", "0", "0", "3">>,  "0", "0"),
      Course("C2",   "A",   <<"0", "0", " 2", "0", "1">>, "0", "2"),
      Course("C4",   "A",   <<"3", "x", "0", "0", "3">>,  "0", "0"),
      Course("E1",   "A",   <<"1", "1", "3", "0", "3">>,  "1", "0"),
      Course("E2",   "X",   <<"2", "0", "2">>,            "1", "0") }

CourseFiles ==
    UNION { [1..n -> CoursePool] : n \in 0..MaxCourses }

\* str.lower() of the Type column (lines 48, 49)
Lower(s) ==
    CASE s = "Classroom" -> "classroom"
      [] s = "CLASSROOM" -> "classroom"
      [] s = "Lab"       -> "lab"
      [] s = "Seminar"   -> "seminar"
      [] OTHER           -> s

RECURSIVE RoomIds(_, _)
RoomIds(rooms_df, type) ==
    IF rooms_df = << >> THEN << >>
    ELSE LET r == Head(rooms_df)
         IN  (IF Lower(r.Type) = type THEN << r.Room_ID >> ELSE << >>)
             \o RoomIds(Tail(rooms_df), type)

Range(seq) == {seq[i] : i \in DOMAIN seq}

SlotKeys(slots_data) ==
    [i \in DOMAIN slots_data |->
        Strip(slots_data[i].start) \o "-" \o Strip(slots_data[i].end)]

-----------------------------------------------------------------------------
(* find_free_blocks, lines 59-71 *)

\* Mutant: the scan does not test the exclusion set.
RECURSIVE ScanSlotsNoExclusion(_, _, _, _, _)
ScanSlotsNoExclusion(tt, day, i, free_groups, temp_group) ==
    IF i > Len(slot_keys)
    THEN IF temp_group # << >> THEN Append(free_groups, temp_group)
                               ELSE free_groups
    ELSE LET slot == slot_keys[i]
         IN  IF tt[day][slot] = ""
             THEN ScanSlotsNoExclusion(tt, day, i + 1, free_groups,
                                       Append(temp_group, slot))
             ELSE IF temp_group # << >>
                  THEN ScanSlotsNoExclusion(tt, day, i + 1,
                           Append(free_groups, temp_group), << >>)
                  ELSE ScanSlotsNoExclusion(tt, day, i + 1, free_groups,
                                            << >>)

RECURSIVE ScanSlots(_, _, _, _, _)
ScanSlots(tt, day, i, free_groups, temp_group) ==
    IF i > Len(slot_keys)
    THEN IF temp_group # << >> THEN Append(free_groups, temp_group)
                               ELSE free_groups
    ELSE LET slot == slot_keys[i]
         IN  IF tt[day][slot] = "" /\ slot \notin excluded_slots
             THEN ScanSlots(tt, day, i + 1, free_groups,
                            Append(temp_group, slot))
             ELSE IF temp_group # << >>
                  THEN ScanSlots(tt, day, i + 1,
                                 Append(free_groups, temp_group), << >>)
                  ELSE ScanSlots(tt, day, i + 1, free_groups, << >>)

find_free_blocks_no_exclusion(tt, day) ==
    ScanSlotsNoExclusion(tt, day, 1, << >>, << >>)

\* Mutant: the scan does not test the occupant (tt_frame.at[day, slot] == "").
find_free_blocks_any_occupant(tt, day) ==
    ScanSlots([d \in DOMAIN tt |-> [s \in DOMAIN tt[d] |-> ""]], day, 1,
              << >>, << >>)

\* Mutant: the run open at the end of the catalog is not appended.
find_free_blocks_no_final_flush(tt, day) ==
    LET r    == ScanSlots(tt, day, 1, << >>, << >>)
        last == slot_keys[Len(slot_keys)]
    IN  IF tt[day][last] = "" /\ last \notin excluded_slots
        THEN SubSeq(r, 1, Len(r) - 1)
        ELSE r

find_free_blocks(tt, day) == ScanSlots(tt, day, 1, << >>, << >>)

-----------------------------------------------------------------------------
(* place_session, lines 76-116 *)

\* sum(time_durations[s] for s in group), line 79
RECURSIVE GroupTotal(_)
GroupTotal(group) ==
    IF group = << >> THEN 0
    ELSE time_durations[Head(group)] + GroupTotal(Tail(group))

\* Mutant: the whole free block is filled.
SlotsToFillWholeGroup(group, duration_hours, duration_accum) ==
    group

\* lines 81-87: the slots of group up to the one that reaches duration_hours
RECURSIVE SlotsToFill(_, _, _)
SlotsToFill(group, duration_hours, duration_accum) ==
    IF group = << >> THEN << >>
    ELSE LET acc == duration_accum + time_durations[Head(group)]
         IN  IF acc >= duration_hours THEN << Head(group) >>
             ELSE << Head(group) >>
                  \o SlotsToFill(Tail(group), duration_hours, acc)

\* lines 78-80: the first group whose total reaches duration_hours (0: none)
RECURSIVE FirstFit(_, _, _)
FirstFit(free_groups, duration_hours, i) ==
    IF i > Len(free_groups) THEN 0
    ELSE IF GroupTotal(free_groups[i]) >= duration_hours THEN i
    ELSE FirstFit(free_groups, duration_hours, i + 1)

\* lines 106-111: the occupant tag
OccupantTag(course_code, room, session_type, is_elective) ==
    CASE session_type = "L" ->
            IF ~is_elective THEN course_code \o " (" \o room \o ")"
                            ELSE course_code
      [] session_type = "T" ->
            IF ~is_elective THEN course_code \o "T (" \o room \o ")"
                            ELSE course_code \o "T"
      [] session_type = "P" ->
            IF ~is_elective THEN course_code \o " (Lab-" \o room \o ")"
                            ELSE course_code

\* Mutant: a room is drawn for every session, bound or not.
RoomChoicesAlwaysDrawn(ra, course_code, session_type) ==
    IF session_type = "P" THEN {labs[i] : i \in DOMAIN labs}
    ELSE {classrooms[i] : i \in DOMAIN classrooms}

\* lines 89-103: the rooms the session may get; empty: return False
RoomChoices(ra, course_code, session_type) ==
    IF course_code \in DOMAIN ra THEN {ra[course_code]}
    ELSE IF session_type = "P" THEN Range(labs)
    ELSE Range(classrooms)

\* line 103
BindRoom(ra, course_code, room) ==
    IF course_code \in DOMAIN ra THEN ra
    ELSE [c \in DOMAIN ra \cup {course_code} |->
             IF c = course_code THEN room ELSE ra[c]]

\* Mutant: the slots are written in the row of every day.
FillSlotsEveryDay(tt, day, slots_to_fill, tag) ==
    [d \in DOMAIN tt |->
        [s \in DOMAIN tt[d] |->
            IF s \in Range(slots_to_fill) THEN tag ELSE tt[d][s]]]

\* lines 105-111
FillSlots(tt, day, slots_to_fill, tag) ==
    [tt EXCEPT ![day] =
        [s \in DOMAIN tt[day] |->
            IF s \in Range(slots_to_fill) THEN tag ELSE tt[day][s]]]

\* Mutant: the faculty is not recorded.
RecordFacultyNever(fs, day, faculty) == fs

\* lines 113-114
RecordFaculty(fs, day, faculty) ==
    IF faculty # "" THEN [fs EXCEPT ![day] = Append(@, faculty)] ELSE fs

\* return False (lines 96, 101, 116)
Failed(tt, fs, ra) ==
    [ret |-> FALSE, tt_frame |-> tt, faculty_schedule |-> fs,
     room_allocations |-> ra, slots |-> << >>, tag |-> "", room |-> ""]

\* Mutant: the room pools are tested after the slots are written and the
\* faculty recorded.
place_session_room_tested_late(tt, fs, ra, day, faculty_name, code, duration_hours, session_type, elective) ==
    LET free_groups == find_free_blocks(tt, day)
        g == FirstFit(free_groups, duration_hours, 1)
    IN  IF g = 0 THEN {Failed(tt, fs, ra)}
        ELSE
          LET slots_to_fill == SlotsToFill(free_groups[g], duration_hours, 0)
              rooms == IF elective THEN {""}
                       ELSE RoomChoices(ra, code, session_type)
          IN  IF rooms = {}
              THEN {Failed(FillSlots(tt, day, slots_to_fill, code),
                           RecordFaculty(fs, day, faculty_name), ra)}
              ELSE
                { LET tag == OccupantTag(code, room, session_type, elective)
                  IN [ret |-> TRUE,
                      tt_frame |-> FillSlots(tt, day, slots_to_fill, tag),
                      faculty_schedule |->
                          RecordFaculty(fs, day, faculty_name),
                      room_allocations |->
                          IF elective THEN ra ELSE BindRoom(ra, code, room),
                      slots |-> slots_to_fill, tag |-> tag, room |-> room]
                  : room \in rooms }

\* The outcomes of one call: one per room random.choice may draw.
place_session(tt, fs, ra, day, faculty, course_code, duration_hours, session_type, is_elective) ==
    LET free_groups == find_free_blocks(tt, day)
        g == FirstFit(free_groups, duration_hours, 1)
    IN  IF g = 0 THEN {Failed(tt, fs, ra)}
        ELSE
          LET slots_to_fill == SlotsToFill(free_groups[g], duration_hours, 0)
              rooms == IF is_elective THEN {""}
                       ELSE RoomChoices(ra, course_code, session_type)
          IN  IF rooms = {} THEN {Failed(tt, fs, ra)}
              ELSE
                { LET tag == OccupantTag(course_code, room, session_type,
                                         is_elective)
                  IN [ret |-> TRUE,
                      tt_frame |-> FillSlots(tt, day, slots_to_fill, tag),
                      faculty_schedule |-> RecordFaculty(fs, day, faculty),
                      room_allocations |->
                          IF is_elective THEN ra
                          ELSE BindRoom(ra, course_code, room),
                      slots |-> slots_to_fill, tag |-> tag, room |-> room]
                  : room \in rooms }

-----------------------------------------------------------------------------
(* create_timetable, lines 186-256, and its two calls, lines 261-265 *)

\* lines 261, 262
HalfCourses(h) ==
    SelectSeq(courses_df,
              LAMBDA c : Strip(c.Semester_Half) \in {h, "0"})

courses_first_half == HalfCourses("1")

courses_second_half == HalfCourses("2")

IsElective(c) == c.Elective = "1"

IsMandatory(c) == c.Elective # "1"

\* Mutant: the chosen elective is scheduled under its own course code.
elective_course_own_code(chosen_elective) ==
    [Course_Code |-> chosen_elective.Course_Code,
     Faculty |-> chosen_elective.Faculty,
     LTPSC |-> chosen_elective.LTPSC]

\* lines 197-201
elective_course(chosen_elective) ==
    [Course_Code |-> "Elective", Faculty |-> chosen_elective.Faculty,
     LTPSC |-> chosen_elective.LTPSC]

\* lines 192-202: the lists the loop at 204 may run over
MandatoryLists(course_list) ==
    LET electives == SelectSeq(course_list, IsElective)
        mand      == SelectSeq(course_list, IsMandatory)
    IN  IF electives # << >>
        THEN {Append(mand, elective_course(e)) : e \in Range(electives)}
        ELSE {mand}

\* line 187
EmptyFrame == [d \in Days |-> [s \in Range(slot_keys) |-> ""]]

\* line 188
EmptySchedule == [d \in Days |-> << >>]

\* Mutant: a field that is missing or no integer counts as 0.
ParseLTPSC_lenient(fields) ==
    [i \in 1..5 |->
        IF i <= Len(fields) /\ ParseInt(Strip(fields[i])) >= 0
        THEN ParseInt(Strip(fields[i])) ELSE 0]

\* line 210; << >> stands for the exception of line 211
ParseLTPSC(fields) ==
    IF Len(fields) = 5 /\ \A i \in 1..5 : ParseInt(Strip(fields[i])) >= 0
    THEN [i \in 1..5 |-> ParseInt(Strip(fields[i]))]
    ELSE << >>

NoCall ==
    [ret |-> "none", day |-> "", faculty |-> "", course_code |-> "",
     duration_hours |-> 0, session_type |-> "", is_elective |-> FALSE,
     slots |-> << >>, tag |-> "", room |-> "", course |-> 0,
     pass |-> 0]

\* Mutant: the global room table is not reset.
RoomTableKept == room_allocations

\* lines 189-190
EmptyRoomTable == << >>

\* the state at line 204 of a call on course_list
EnterCall(course_list) ==
    /\ tt_frame' = EmptyFrame
    /\ faculty_schedule' = EmptySchedule
    /\ room_allocations' = EmptyRoomTable
    /\ mandatory' \in MandatoryLists(course_list)
    /\ pc' = "course"
    /\ ci' = 1
    /\ ltp' = <<0, 0, 0>>
    /\ hours_remaining' = 0
    /\ attempts' = 0
    /\ day_idx' = 0
    /\ call' = NoCall
    /\ sessions' = << >>

\* The state at line 204 of the first call (line 264).
Init ==
    /\ \E slots_data \in SlotFiles :
          /\ slot_keys = SlotKeys(slots_data)
          /\ time_durations =
                [s \in Range(SlotKeys(slots_data)) |-> calc_slot_duration(s)]
    /\ courses_df \in CourseFiles
    /\ \E rooms_df \in RoomFiles :
          /\ classrooms = RoomIds(rooms_df, "classroom")
          /\ labs = RoomIds(rooms_df, "lab")
    /\ room_allocations = << >>
    /\ tt_frame = EmptyFrame
    /\ faculty_schedule = EmptySchedule
    /\ mandatory \in MandatoryLists(courses_first_half)
    /\ half = 1
    /\ pc = "course"
    /\ ci = 1
    /\ ltp = <<0, 0, 0>>
    /\ hours_remaining = 0
    /\ attempts = 0
    /\ day_idx = 0
    /\ call = NoCall
    /\ sessions = << >>

\* Mutant: the Elective pseudo-course is treated like any other course.
is_elective_never ==
    FALSE

\* lines 205-207, for the course the loop at 204 is at
faculty == Strip(mandatory[ci].Faculty)

course_code == Strip(mandatory[ci].Course_Code)

is_elective == course_code = "Elective"

\* Mutant: a lecture asks for all the remaining hours at once.
alloc_hours_uncapped(session_type, remaining) ==
    CASE session_type = "L" -> remaining
      [] session_type = "T" -> TutorialBlock
      [] session_type = "P" ->
            IF remaining >= PracticalBlock THEN PracticalBlock ELSE remaining

\* Mutant: a practical always asks for a whole two-hour block.
alloc_hours_practical_whole_block(session_type, remaining) ==
    CASE session_type = "L" ->
            IF LectureBlock < remaining THEN LectureBlock ELSE remaining
      [] session_type = "T" -> TutorialBlock
      [] session_type = "P" -> PracticalBlock

\* the requested duration: lines 221, 233, 244
alloc_hours(session_type, remaining) ==
    CASE session_type = "L" ->
            IF LectureBlock < remaining THEN LectureBlock ELSE remaining
      [] session_type = "T" -> TutorialBlock
      [] session_type = "P" ->
            IF remaining >= PracticalBlock
            THEN (IF PracticalBlock < remaining THEN PracticalBlock
                                                ELSE remaining)
            ELSE remaining

\* Mutant: a placement takes a whole block off the remaining hours.
decrement_whole_block(session_type, remaining) ==
    remaining - (CASE session_type = "L" -> LectureBlock
                   [] session_type = "T" -> TutorialBlock
                   [] session_type = "P" -> PracticalBlock)

\* what a successful placement takes off the remaining hours: 223, 234, 246
decrement(session_type, remaining) ==
    remaining - alloc_hours(session_type, remaining)

\* Mutant: one pass too few.
loop_continues_one_short(remaining, n) ==
    remaining > 0 /\ n < MAX_ATTEMPTS - 1

\* Mutant: one pass too many.
loop_continues_off_by_one(remaining, n) ==
    remaining > 0 /\ n <= MAX_ATTEMPTS

\* the condition of the while loops at 216, 228, 239
loop_continues(remaining, n) == remaining > 0 /\ n < MAX_ATTEMPTS

\* Mutant: the faculty's day is not tested.
day_skipped_hours_only(fs, day, remaining) == remaining <= 0

\* the skip test of lines 219, 231, 242
day_skipped(fs, day, remaining) ==
    remaining <= 0 \/ (faculty # "" /\ faculty \in Range(fs[day]))

frame == <<tt_frame, faculty_schedule, room_allocations, sessions>>

\* line 204: the next course, its quintuple parsed, or the end of the loop
NextCourse ==
    /\ pc = "course"
    /\ call' = NoCall
    /\ IF ci > Len(mandatory)
       THEN /\ pc' = "clear"
            /\ UNCHANGED <<ci, ltp, hours_remaining, attempts, day_idx>>
       ELSE LET q == ParseLTPSC(mandatory[ci].LTPSC)
            IN  IF q = << >>
                THEN /\ ci' = ci + 1
                     /\ UNCHANGED <<pc, ltp, hours_remaining, attempts,
                                    day_idx>>
                ELSE /\ ltp' = <<q[1], q[2], q[3]>>
                     /\ hours_remaining' = q[1] * MinutesPerHour
                     /\ attempts' = 0
                     /\ pc' = "L_while"
                     /\ UNCHANGED <<ci, day_idx>>
    /\ UNCHANGED <<config, frame, mandatory, half>>

\* One test of a while condition. When it fails, control is at the
\* statements after the loop: next_hours is what they assign.
WhileTest(session_type, next_pc, next_hours) ==
    /\ call' = NoCall
    /\ IF loop_continues(hours_remaining, attempts)
       THEN /\ attempts' = attempts + 1
            /\ day_idx' = 1
            /\ pc' = session_type \o "_day"
            /\ UNCHANGED <<hours_remaining, ci>>
       ELSE /\ pc' = next_pc
            /\ hours_remaining' = next_hours
            /\ attempts' = 0
            /\ ci' = IF next_pc = "course" THEN ci + 1 ELSE ci
            /\ UNCHANGED day_idx
    /\ UNCHANGED <<config, frame, mandatory, half, ltp>>

\* Mutant: no break after a placement, the same day is entered again.
stay_in_day_loop(session_type) ==
    session_type \o "_day"

\* the break at lines 224, 235, 247: back to the while test
after_placement(session_type) ==
    session_type \o "_while"

\* One iteration of a for loop over week_days.
DayStep(session_type) ==
    /\ LET day == week_days[day_idx]
           next_day ==
               /\ IF day_idx = Len(week_days)
                  THEN pc' = session_type \o "_while" /\ UNCHANGED day_idx
                  ELSE day_idx' = day_idx + 1 /\ UNCHANGED pc
               /\ UNCHANGED <<frame, hours_remaining>>
       IN  IF day_skipped(faculty_schedule, day, hours_remaining)
           THEN call' = NoCall /\ next_day
           ELSE
             LET dur == alloc_hours(session_type, hours_remaining)
             IN  \E o \in place_session(tt_frame, faculty_schedule,
                                        room_allocations, day, faculty,
                                        course_code, dur, session_type,
                                        is_elective) :
                   LET c == [ret |-> IF o.ret THEN "true" ELSE "false",
                             day |-> day, faculty |-> faculty,
                             course_code |-> course_code,
                             duration_hours |-> dur,
                             session_type |-> session_type,
                             is_elective |-> is_elective,
                             slots |-> o.slots, tag |-> o.tag,
                             room |-> o.room, course |-> ci,
                             pass |-> attempts]
                   IN  /\ call' = c
                       /\ IF o.ret
                          THEN /\ tt_frame' = o.tt_frame
                               /\ faculty_schedule' = o.faculty_schedule
                               /\ room_allocations' = o.room_allocations
                               /\ sessions' = Append(sessions, c)
                               /\ hours_remaining' =
                                     decrement(session_type, hours_remaining)
                               /\ pc' = after_placement(session_type)
                               /\ UNCHANGED day_idx
                          ELSE /\ tt_frame' = o.tt_frame
                               /\ faculty_schedule' = o.faculty_schedule
                               /\ room_allocations' = o.room_allocations
                               /\ UNCHANGED sessions
                               /\ IF day_idx = Len(week_days)
                                  THEN /\ pc' = session_type \o "_while"
                                       /\ UNCHANGED day_idx
                                  ELSE /\ day_idx' = day_idx + 1
                                       /\ UNCHANGED pc
                               /\ UNCHANGED hours_remaining
    /\ UNCHANGED <<config, mandatory, half, ci, ltp, attempts>>

\* lines 214-224
LectureWhile ==
    /\ pc = "L_while"
    /\ WhileTest("L", "T_while", ltp[2] * MinutesPerHour)

LectureDay ==
    /\ pc = "L_day"
    /\ DayStep("L")

\* lines 226-235
TutorialWhile ==
    /\ pc = "T_while"
    /\ WhileTest("T", "P_while", ltp[3] * MinutesPerHour)

TutorialDay ==
    /\ pc = "T_day"
    /\ DayStep("T")

\* lines 237-247
PracticalWhile ==
    /\ pc = "P_while"
    /\ WhileTest("P", "course", 0)

PracticalDay ==
    /\ pc = "P_day"
    /\ DayStep("P")

\* lines 249-256
ClearExcluded ==
    /\ pc = "clear"
    /\ tt_frame' =
          [d \in Days |-> [s \in Range(slot_keys) |->
              IF s \in excluded_slots THEN "" ELSE tt_frame[d][s]]]
    /\ pc' = "saved"
    /\ call' = NoCall
    /\ UNCHANGED <<config, faculty_schedule, room_allocations, sessions,
                   mandatory, half, ci, ltp, hours_remaining, attempts,
                   day_idx>>

\* line 265: the second call, up to line 204
SecondCall ==
    /\ pc = "saved"
    /\ half = 1
    /\ half' = 2
    /\ EnterCall(courses_second_half)
    /\ UNCHANGED config

Next ==
    \/ NextCourse
    \/ LectureWhile
    \/ LectureDay
    \/ TutorialWhile
    \/ TutorialDay
    \/ PracticalWhile
    \/ PracticalDay
    \/ ClearExcluded
    \/ SecondCall

Spec == Init /\ [][Next]_vars

\* The program is sequential: a step that can be taken is taken.
FairSpec == Spec /\ WF_vars(Next)

Done == pc = "saved" /\ half = 2

-----------------------------------------------------------------------------
(* Vocabulary of the properties *)

Slots == Range(slot_keys)

InLoops == pc \in {"L_while", "L_day", "T_while", "T_day", "P_while", "P_day"}

AtWhile == pc \in {"L_while", "T_while", "P_while"}

\* the session type whose loop control is in
Phase ==
    CASE pc \in {"L_while", "L_day"} -> "L"
      [] pc \in {"T_while", "T_day"} -> "T"
      [] pc \in {"P_while", "P_day"} -> "P"
      [] OTHER -> ""

\* the hours the current loop started with
Required ==
    CASE Phase = "L" -> ltp[1] * MinutesPerHour
      [] Phase = "T" -> ltp[2] * MinutesPerHour
      [] Phase = "P" -> ltp[3] * MinutesPerHour
      [] OTHER -> 0

\* the while loop control is at has ended
Terminal == AtWhile /\ ~(hours_remaining > 0 /\ attempts < MAX_ATTEMPTS)

\* how far create_timetable has come in this call
PhaseNo ==
    CASE pc = "course" -> 0
      [] Phase = "L" -> 1
      [] Phase = "T" -> 2
      [] Phase = "P" -> 3
      [] OTHER -> 0

Position ==
    IF pc \in {"clear", "saved"} THEN 4 * (Len(mandatory) + 2)
    ELSE 4 * ci + PhaseNo

SameCall == half' = half

\* this step ends the loop control is in
LeavesLoop == AtWhile /\ Position' # Position

SessionsOn(day, name) ==
    {i \in DOMAIN sessions :
        sessions[i].day = day /\ sessions[i].faculty = name}

-----------------------------------------------------------------------------
(* C1: within one create_timetable call, a cell that holds an occupant is  *)
(* never changed again, and every cell a place_session call writes was     *)
(* empty and not excluded just before the call.                            *)
C1_NoOverwrite ==
    [][ SameCall =>
          /\ \A d \in Days : \A s \in Slots :
                tt_frame[d][s] # "" => tt_frame'[d][s] = tt_frame[d][s]
          /\ call'.ret = "true" =>
                \A s \in Range(call'.slots) :
                    /\ tt_frame[call'.day][s] = ""
                    /\ s \notin excluded_slots
                    /\ tt_frame'[call'.day][s] = call'.tag
                    /\ call'.tag # "" ]_vars

\* a session was just placed on a day that already held another one
C1_Witness ==
    /\ call.ret = "true"
    /\ \E i \in DOMAIN sessions :
          /\ i < Len(sessions)
          /\ sessions[i].day = call.day
          /\ \A s \in Range(sessions[i].slots) :
                tt_frame[call.day][s] = sessions[i].tag

-----------------------------------------------------------------------------
(* C2: in every state, on every day, at most one placed session (of any    *)
(* course and type) belongs to a given non-empty faculty name.             *)
C2_OneSessionPerFacultyDay ==
    \A d \in Days : \A i, j \in DOMAIN sessions :
        (/\ sessions[i].day = d /\ sessions[j].day = d
         /\ sessions[i].faculty # ""
         /\ sessions[i].faculty = sessions[j].faculty) => i = j

\* the course 3-1-0-0-3 of faculty A alone: its three sessions on three days
C2_Witness ==
    /\ pc = "saved"
    /\ Len(mandatory) = 1
    /\ mandatory[1].LTPSC = <<"3", "1", "0", "0", "3">>
    /\ mandatory[1].Faculty = "A"
    /\ Len(sessions) = 3
    /\ \A d \in Days : Cardinality(SessionsOn(d, "A")) <= 1

-----------------------------------------------------------------------------
(* C3: every practical session of a non-elective course carries a room of  *)
(* the lab pool, every lecture or tutorial a room of the classroom pool.   *)
C3_RoomPoolBySessionType ==
    \A i \in DOMAIN sessions :
        ~sessions[i].is_elective =>
            IF sessions[i].session_type = "P"
            THEN \E r \in Range(labs) :
                    sessions[i].tag =
                        sessions[i].course_code \o " (Lab-" \o r \o ")"
            ELSE \E r \in Range(classrooms) :
                    sessions[i].tag \in
                        {sessions[i].course_code \o " (" \o r \o ")",
                         sessions[i].course_code \o "T (" \o r \o ")"}

-----------------------------------------------------------------------------
(* The end-to-end scenario of C4: three one-hour slots, none excluded, the *)
(* one classroom R1, and the single course CODE, 2-0-0-0-2, of faculty X.  *)
C4_Scenario ==
    /\ slot_keys = <<"08:00-09:00", "09:00-10:00", "10:00-11:00">>
    /\ classrooms = <<"R1">>
    /\ labs = << >>
    /\ courses_df = << Course("CODE", "X", <<"2", "0", "0", "0", "2">>,
                              "0", "0") >>

C4_FirstSession ==
    /\ Len(sessions) >= 1
    /\ sessions[1].day = "Monday"
    /\ sessions[1].session_type = "L"
    /\ sessions[1].slots = <<"08:00-09:00", "09:00-10:00">>
    /\ tt_frame["Monday"] =
          [s \in Slots |-> IF s = "10:00-11:00" THEN "" ELSE "CODE (R1)"]

\* C4 as stated: in the scenario the lecture hours are two consecutive
\* one-hour slots of the first day tagged "CODE (R1)", the remaining hours
\* are 0 after one pass, and no other lecture session is placed.
C4_AsStated ==
    C4_Scenario =>
        /\ (pc = "L_while" /\ attempts = 1) =>
              (C4_FirstSession /\ hours_remaining = 0)
        /\ pc = "saved" => (C4_FirstSession /\ Len(sessions) = 1)

\* C4 amended: the first pass places the two slots on Monday for the 1.5 h
\* it asked for and leaves 0.5 h; the second pass places that half hour as
\* one slot on Tuesday, and the remaining hours are 0 after two passes.
C4_TwoPasses ==
    C4_Scenario =>
        /\ (pc = "L_while" /\ attempts = 1) =>
              /\ C4_FirstSession
              /\ sessions[1].duration_hours = LectureBlock
              /\ hours_remaining = 2 * MinutesPerHour - LectureBlock
              /\ Len(sessions) = 1
        /\ (pc = "L_while" /\ attempts = 2) =>
              /\ C4_FirstSession
              /\ hours_remaining = 0
              /\ Len(sessions) = 2
        /\ pc = "saved" =>
              /\ C4_FirstSession
              /\ Len(sessions) = 2
              /\ sessions[2].day = "Tuesday"
              /\ sessions[2].session_type = "L"
              /\ sessions[2].duration_hours =
                    2 * MinutesPerHour - LectureBlock
              /\ sessions[2].slots = <<"08:00-09:00">>
              /\ tt_frame["Tuesday"] =
                    [s \in Slots |->
                        IF s = "08:00-09:00" THEN "CODE (R1)" ELSE ""]
              /\ \A d \in Days \ {"Monday", "Tuesday"} : \A s \in Slots :
                    tt_frame[d][s] = ""

C4_Witness ==
    /\ C4_Scenario
    /\ pc = "saved"
    /\ Len(sessions) = 2
    /\ tt_frame["Tuesday"]["08:00-09:00"] = "CODE (R1)"

-----------------------------------------------------------------------------
(* C5: no excluded slot ever carries an occupant, on any day, and no       *)
(* session is placed on an excluded slot.                                  *)
C5_ExcludedStayEmpty ==
    /\ \A d \in Days : \A s \in Slots \cap excluded_slots :
          tt_frame[d][s] = ""
    /\ \A i \in DOMAIN sessions :
          Range(sessions[i].slots) \cap excluded_slots = {}

\* a day with sessions on both sides of the excluded slot 13:15-14:00
C5_Witness ==
    /\ "13:15-14:00" \in Slots
    /\ \E d \in Days :
          /\ tt_frame[d]["10:00-10:30"] # ""
          /\ tt_frame[d]["14:00-15:30"] # ""
          /\ tt_frame[d]["13:15-14:00"] = ""

-----------------------------------------------------------------------------
(* C6: within one create_timetable call a room bound to a course code is   *)
(* never rebound, and every occupant tag written for a non-elective course *)
(* code embeds the room bound to that code.                                *)
C6_RoomReuse ==
    /\ [][ SameCall =>
             \A c \in DOMAIN room_allocations :
                 /\ c \in DOMAIN room_allocations'
                 /\ room_allocations'[c] = room_allocations[c] ]_vars
    /\ [](\A i \in DOMAIN sessions :
             ~sessions[i].is_elective =>
                 /\ sessions[i].course_code \in DOMAIN room_allocations
                 /\ sessions[i].tag =
                       OccupantTag(sessions[i].course_code,
                                   room_allocations[sessions[i].course_code],
                                   sessions[i].session_type, FALSE)
                 /\ \A s \in Range(sessions[i].slots) :
                       tt_frame[sessions[i].day][s] = sessions[i].tag)

\* two sessions of one course on different days, with two classrooms to
\* draw from, carry one room
C6_Witness ==
    /\ Len(classrooms) >= 2
    /\ \E i, j \in DOMAIN sessions :
          /\ i < j
          /\ ~sessions[i].is_elective
          /\ sessions[i].course_code = sessions[j].course_code
          /\ sessions[i].day # sessions[j].day
          /\ sessions[i].session_type # sessions[j].session_type
          /\ sessions[i].room = sessions[j].room
          /\ sessions[i].room = room_allocations[sessions[i].course_code]

-----------------------------------------------------------------------------
(* C7: a place_session call that returns False, for want of a fitting free *)
(* block or of a room in the pool it needs, leaves the grid, the faculty   *)
(* lists and the room table as they were.                                  *)
C7_FailedPlacementChangesNothing ==
    [][ call'.ret = "false" =>
          /\ tt_frame' = tt_frame
          /\ faculty_schedule' = faculty_schedule
          /\ room_allocations' = room_allocations
          /\ sessions' = sessions ]_vars

\* a call that found a fitting block and then failed on an empty pool, in
\* a run in which another session is already placed
C7_Witness ==
    /\ call.ret = "false"
    /\ FirstFit(find_free_blocks(tt_frame, call.day),
                call.duration_hours, 1) # 0
    /\ call.course_code \notin DOMAIN room_allocations
    /\ sessions # << >>

-----------------------------------------------------------------------------
(* The two ways a scheduling loop ends *)
C8_Exhausted == Terminal /\ hours_remaining = 0

C8_BudgetExpired ==
    Terminal /\ attempts = MAX_ATTEMPTS /\ hours_remaining > 0

(* C8: a scheduling loop ends either Exhausted (remaining hours exactly 0) *)
(* or Budget-Expired (10 passes made, remaining hours > 0), never both;    *)
(* the remaining hours are never negative and never increase during the    *)
(* loop, and once the loop has ended control leaves it for good: no        *)
(* further placement for that course and session type.                     *)
C8_TerminalStates ==
    /\ [](InLoops => hours_remaining >= 0 /\ hours_remaining <= Required)
    /\ [](Terminal => (C8_Exhausted /\ ~C8_BudgetExpired)
                      \/ (C8_BudgetExpired /\ ~C8_Exhausted))
    /\ [][ (SameCall /\ Position' = Position) =>
               hours_remaining' <= hours_remaining ]_vars
    /\ [][ SameCall => Position' >= Position ]_vars
    /\ [][ Terminal => (Position' > Position /\ call'.ret = "none"
                        /\ sessions' = sessions) ]_vars
    /\ [][ LeavesLoop => Terminal ]_vars
    /\ [][ call'.ret # "none" =>
              (4 * call'.course + PhaseNo = Position /\ ~Terminal
               /\ call'.session_type = Phase) ]_vars

\* a loop that placed part of its hours and then ran out of passes
C8_Witness ==
    /\ C8_BudgetExpired
    /\ hours_remaining < Required
    /\ \E i \in DOMAIN sessions :
          sessions[i].course = ci /\ sessions[i].session_type = Phase

-----------------------------------------------------------------------------
\* the faculty of the current course is busy on every day
Blocked ==
    /\ InLoops
    /\ faculty # ""
    /\ \A d \in Days : faculty \in Range(faculty_schedule[d])

\* ... and was so when the course started: none of the sessions is its own
BlockedFromStart ==
    /\ Blocked
    /\ \A i \in DOMAIN sessions : sessions[i].course # ci

(* C9: a course whose non-empty faculty is in the faculty list of all five *)
(* days when its scheduling starts runs exactly 10 passes for each session *)
(* type it needs hours of, places nothing, leaves the grid as it was, and  *)
(* control goes on to the next course.                                     *)
C9_BudgetExpiry ==
    /\ [][ BlockedFromStart =>
              /\ tt_frame' = tt_frame
              /\ faculty_schedule' = faculty_schedule
              /\ room_allocations' = room_allocations
              /\ sessions' = sessions
              /\ call'.ret = "none"
              /\ (pc' = "course" => (pc = "P_while" /\ ci' = ci + 1))
              /\ pc' \in {"L_while", "L_day", "T_while", "T_day",
                          "P_while", "P_day", "course"} ]_vars
    /\ [][ (BlockedFromStart /\ LeavesLoop) =>
              /\ hours_remaining = Required
              /\ Required > 0 => attempts = MAX_ATTEMPTS
              /\ Required = 0 => attempts = 0 ]_vars

\* the tutorial loop of such a course, ended after its 10 passes with the
\* lecture hours unplaced too
C9_Witness ==
    /\ BlockedFromStart
    /\ pc = "T_while"
    /\ Terminal
    /\ ltp[1] > 0
    /\ attempts = MAX_ATTEMPTS
    /\ hours_remaining = Required
    /\ Required > 0

-----------------------------------------------------------------------------
(* The shape of the grid *)
GridShape ==
    /\ DOMAIN tt_frame = Days
    /\ \A d \in Days :
          /\ DOMAIN tt_frame[d] = Slots
          /\ \A s \in Slots :
                \/ tt_frame[d][s] = ""
                \/ \E i \in DOMAIN sessions :
                      /\ sessions[i].day = d
                      /\ s \in Range(sessions[i].slots)
                      /\ tt_frame[d][s] = sessions[i].tag

\* A bound on the steps left, from the loop bounds of the code: a pass is
\* one while test and at most five days, a loop at most 10 passes and the
\* test that ends it, a course its parse and three loops.
StepsPerPass == Len(week_days) + 1

StepsPerLoop == MAX_ATTEMPTS * StepsPerPass + 1

StepsPerCourse == 3 * StepsPerLoop + 1

LoopsAfter ==
    CASE Phase = "L" -> 2
      [] Phase = "T" -> 1
      [] OTHER -> 0

StepsLeftInCall ==
    CASE pc = "saved" -> 0
      [] pc = "clear" -> 1
      [] pc = "course" -> (Len(mandatory) + 1 - ci) * StepsPerCourse + 2
      [] OTHER ->
            (IF AtWhile THEN 0 ELSE Len(week_days) + 1 - day_idx)
            + (MAX_ATTEMPTS - attempts) * StepsPerPass + 1
            + LoopsAfter * StepsPerLoop
            + (Len(mandatory) - ci) * StepsPerCourse + 2

StepsLeft ==
    StepsLeftInCall
    + (IF half = 1 THEN Len(courses_df) * StepsPerCourse + 3 ELSE 0)

\* The iteration of a for loop control is at can be made: the day is
\* skipped, or place_session has an outcome.  (ENABLED of the day actions,
\* spelled out.)
DayStepEnabled ==
    /\ day_idx \in DOMAIN week_days
    /\ \/ day_skipped(faculty_schedule, week_days[day_idx], hours_remaining)
       \/ place_session(tt_frame, faculty_schedule, room_allocations,
                        week_days[day_idx], faculty, course_code,
                        alloc_hours(Phase, hours_remaining), Phase,
                        is_elective) # {}

NotStuck ==
    \/ Done
    \/ InLoops /\ ~AtWhile /\ DayStepEnabled
    \/ (AtWhile \/ ~InLoops) /\ ENABLED Next

(* C10: for every course list, with infeasible lists, empty room pools and *)
(* malformed quintuples among them, both calls of create_timetable end;    *)
(* no loop makes more than 10 passes; and in every state the grid has one  *)
(* entry per day and slot, empty or the tag of one placed session.         *)
(* Termination: every step takes the step bound down, the bound is never   *)
(* negative, and only the end of the second call has no next step.         *)
C10_TerminatesWithFullGrid ==
    /\ [][ StepsLeft' < StepsLeft ]_vars
    /\ [](StepsLeft >= 0)
    /\ []NotStuck
    /\ [](attempts <= MAX_ATTEMPTS)
    /\ [](InLoops /\ ~AtWhile => attempts >= 1)
    /\ []GridShape

\* The same, as a liveness property of the sequential program (FairSpec).
C10_EventuallyDone == <>Done

\* the second call ended on a list with a malformed quintuple and a course
\* that needs lecture hours, has no classroom to draw and got no session
C10_Witness ==
    /\ Done
    /\ classrooms = << >>
    /\ \E i \in DOMAIN mandatory : ParseLTPSC(mandatory[i].LTPSC) = << >>
    /\ \E i \in DOMAIN mandatory :
          /\ ParseLTPSC(mandatory[i].LTPSC) # << >>
          /\ ParseLTPSC(mandatory[i].LTPSC)[1] > 0
          /\ \A j \in DOMAIN sessions : sessions[j].course # i
    /\ GridShape

(***************************************************************************)
(* C11: Elective sessions never carry a room.  Every session placed for    *)
(* the course code "Elective" writes the bare tag "Elective" (lecture,     *)
(* practical) or "ElectiveT" (tutorial), uses no room, and "Elective" is   *)
(* never a key of the Room Allocation Table; the placement succeeds with   *)
(* both room pools empty.                                                  *)
(***************************************************************************)
C11_ElectiveTags == {"Elective", "ElectiveT"}

C11_ElectiveHasNoRoom ==
    /\ "Elective" \notin DOMAIN room_allocations
    /\ \A i \in 1..Len(sessions) :
          sessions[i].course_code = "Elective" =>
            /\ sessions[i].tag =
                  (IF sessions[i].session_type = "T"
                   THEN "ElectiveT" ELSE "Elective")
            /\ sessions[i].room = ""
            /\ \A s \in Range(sessions[i].slots) :
                  tt_frame[sessions[i].day][s] = sessions[i].tag
    /\ \A i \in 1..Len(sessions) :
          sessions[i].tag \in C11_ElectiveTags =>
            sessions[i].course_code = "Elective"

\* lecture, tutorial and practical of an Elective placed with no room at all
C11_Witness ==
    /\ classrooms = << >> /\ labs = << >>
    /\ \A t \in {"L", "T", "P"} :
          \E i \in 1..Len(sessions) :
            /\ sessions[i].course_code = "Elective"
            /\ sessions[i].session_type = t

\* the course list of the running call, split on the Elective flag
C12_CourseList == HalfCourses(IF half = 1 THEN "1" ELSE "2")

C12_Flagged == SelectSeq(C12_CourseList, LAMBDA c : c.Elective = "1")

C12_Unflagged == SelectSeq(C12_CourseList, LAMBDA c : c.Elective # "1")

\* every tag place_session can write for a course code
C12_TagsOf(code) ==
    {code, code \o "T"}
    \cup UNION { { code \o " (" \o r \o ")", code \o "T (" \o r \o ")",
                   code \o " (Lab-" \o r \o ")" } :
                 r \in Range(classrooms) \cup Range(labs) }

C13_AtDay == pc \in {"L_day", "T_day", "P_day"}

\* the faculty of the current course is in the day's Faculty-Day Set
C13_FacultyBlocked(day) ==
    faculty # "" /\ faculty \in Range(faculty_schedule[day])

\* the day has a free block whose total duration reaches the amount
C13_Fits(day, amount) ==
    \E k \in DOMAIN find_free_blocks(tt_frame, day) :
      GroupTotal(find_free_blocks(tt_frame, day)[k]) >= amount

(***************************************************************************)
(* C13: a pass tries the days in the order Monday..Friday and places at    *)
(* most one session.  A session that is placed lands on the first day of   *)
(* that order that is not faculty-blocked and has a fitting free block,    *)
(* and the pass ends with it; a skipped or failed day hands over to the    *)
(* next day of the same pass, or ends the pass after Friday.               *)
(***************************************************************************)
C13_OneSessionPerPass ==
    /\ [][ /\ (AtWhile /\ C13_AtDay') =>
                 (attempts' = attempts + 1 /\ day_idx' = 1)
           /\ (C13_AtDay /\ call'.ret = "true") =>
                 /\ call'.day = week_days[day_idx]
                 /\ call'.pass = attempts
                 /\ ~C13_FacultyBlocked(week_days[day_idx])
                 /\ C13_Fits(week_days[day_idx], call'.duration_hours)
                 /\ \A j \in 1..(day_idx - 1) :
                       \/ C13_FacultyBlocked(week_days[j])
                       \/ ~C13_Fits(week_days[j], call'.duration_hours)
                 /\ Len(sessions') = Len(sessions) + 1
                 /\ AtWhile' /\ Phase' = Phase
           /\ (C13_AtDay /\ call'.ret # "true") =>
                 /\ sessions' = sessions
                 /\ attempts' = attempts
                 /\ Phase' = Phase
                 /\ IF day_idx < Len(week_days)
                    THEN C13_AtDay' /\ day_idx' = day_idx + 1
                    ELSE AtWhile'
         ]_vars
    /\ [](\A i, j \in 1..Len(sessions) :
            (/\ i < j
             /\ sessions[i].course = sessions[j].course
             /\ sessions[i].session_type = sessions[j].session_type)
            => sessions[i].pass < sessions[j].pass)

\* a session has just landed on a day after a faculty-blocked day and a
\* day that was tried and had no fitting free block
C13_Witness ==
    /\ AtWhile
    /\ call.ret = "true"
    /\ call.day = week_days[day_idx]
    /\ call.faculty # ""
    /\ \E j \in 1..(day_idx - 1) :
          call.faculty \in Range(faculty_schedule[week_days[j]])
    /\ \E j \in 1..(day_idx - 1) :
          /\ call.faculty \notin Range(faculty_schedule[week_days[j]])
          /\ \A k \in DOMAIN find_free_blocks(tt_frame, week_days[j]) :
                GroupTotal(find_free_blocks(tt_frame, week_days[j])[k])
                    < call.duration_hours

\* the sessions placed so far by the loop control is in
C14_RunSessions ==
    SelectSeq(sessions,
              LAMBDA x : x.course = ci /\ x.session_type = Phase)

RECURSIVE C14_Requested(_)
C14_Requested(placed) ==
    IF placed = << >> THEN 0
    ELSE Head(placed).duration_hours + C14_Requested(Tail(placed))

(***************************************************************************)
(* C14: a lecture placement requests min(1.5 h, remaining), a tutorial     *)
(* placement 1 h, a practical placement 2 h when remaining >= 2 h and the  *)
(* remainder otherwise; a success takes exactly the requested amount off   *)
(* remaining, whatever the filled slots add up to, and a failure nothing,  *)
(* so remaining plus the requests of the run's sessions is always the      *)
(* required amount, and the requests sum to it when the run is Exhausted.  *)
(***************************************************************************)
C14_SessionSizing ==
    /\ [][ C13_AtDay /\ call'.ret # "none" =>
             /\ Phase = "L" =>
                   call'.duration_hours =
                     (IF hours_remaining > LectureBlock
                      THEN LectureBlock ELSE hours_remaining)
             /\ Phase = "T" => call'.duration_hours = TutorialBlock
             /\ Phase = "P" =>
                   call'.duration_hours =
                     (IF hours_remaining >= PracticalBlock
                      THEN PracticalBlock ELSE hours_remaining)
             /\ call'.ret = "true" =>
                   hours_remaining' = hours_remaining - call'.duration_hours
             /\ call'.ret = "false" => hours_remaining' = hours_remaining
         ]_vars
    /\ [](InLoops =>
            hours_remaining + C14_Requested(C14_RunSessions) = Required)
    /\ [](C8_Exhausted => C14_Requested(C14_RunSessions) = Required)

\* a practical run of 3 h is Exhausted by a 2 h and a 1 h request, the
\* course's lecture having filled more than it asked for
C14_Witness ==
    /\ pc = "P_while" /\ C8_Exhausted /\ Required = 3 * MinutesPerHour
    /\ Len(C14_RunSessions) = 2
    /\ C14_RunSessions[1].duration_hours = PracticalBlock
    /\ C14_RunSessions[2].duration_hours = MinutesPerHour
    /\ \E i \in 1..Len(sessions) :
          /\ sessions[i].course = ci
          /\ sessions[i].session_type = "L"
          /\ GroupTotal(sessions[i].slots) > sessions[i].duration_hours

\* the place of a slot in the catalog
C15_Index(slot) == CHOOSE i \in DOMAIN slot_keys : slot_keys[i] = slot

\* the summed duration of the first n slots of a list
C15_PrefixTotal(slots, n) == GroupTotal(SubSeq(slots, 1, n))

(***************************************************************************)
(* C15: a successful place_session fills a prefix of the first free block  *)
(* of the day, in slot order, whose total duration reaches duration_hours: *)
(* the filled slots are whole catalog slots, their durations sum to at     *)
(* least duration_hours, without the last one to less, and every earlier   *)
(* free block of the day totals less than duration_hours.                  *)
(***************************************************************************)
C15_ShortestPrefixOfFirstFit ==
    [][ C13_AtDay /\ call'.ret = "true" =>
          LET groups == find_free_blocks(tt_frame, call'.day)
              filled == call'.slots
              n      == Len(filled)
          IN  /\ n >= 1
              /\ Range(filled) \subseteq Range(slot_keys)
              /\ C15_PrefixTotal(filled, n) >= call'.duration_hours
              /\ C15_PrefixTotal(filled, n - 1) < call'.duration_hours
              /\ \E g \in DOMAIN groups :
                    /\ n <= Len(groups[g])
                    /\ filled = SubSeq(groups[g], 1, n)
                    /\ \A h \in 1..(g - 1) :
                          GroupTotal(groups[h]) < call'.duration_hours
              /\ \A sl \in Range(filled) :
                    tt_frame'[call'.day][sl] = call'.tag
      ]_vars

\* the session just placed passed over an earlier free block that was too
\* short, and its slots last longer than the duration asked for
C15_Witness ==
    /\ AtWhile /\ call.ret = "true"
    /\ GroupTotal(call.slots) > call.duration_hours
    /\ \E k \in DOMAIN find_free_blocks(tt_frame, call.day) :
          LET early == find_free_blocks(tt_frame, call.day)[k]
          IN  /\ C15_Index(early[1]) < C15_Index(call.slots[1])
              /\ GroupTotal(early) < call.duration_hours

\* the catalog places of the day's empty, non-excluded slots, in order
C16_Free(day) ==
    SelectSeq([i \in DOMAIN slot_keys |-> i],
              LAMBDA i : /\ tt_frame[day][slot_keys[i]] = ""
                         /\ slot_keys[i] \notin excluded_slots)

\* the groups one after the other
RECURSIVE C16_Flat(_)
C16_Flat(groups) ==
    IF groups = << >> THEN << >>
    ELSE Head(groups) \o C16_Flat(Tail(groups))

\* the places of C16_Flat(groups) at which a group ends
C16_Ends(groups) ==
    { Len(C16_Flat(SubSeq(groups, 1, k))) : k \in DOMAIN groups }

\* the non-excluded slots among the catalog places a..b, in catalog order
C16_Run(a, b) ==
    SelectSeq(SubSeq(slot_keys, a, b), LAMBDA sl : sl \notin excluded_slots)

\* every cell of the day is empty
C16_AllEmpty(day) == \A sl \in Range(slot_keys) : tt_frame[day][sl] = ""

\* place m holds an excluded slot with usable slots on both sides, and no
\* other excluded slot lies between the first and the last usable slot
C16_OnlyMiddleExclusion(m) ==
    /\ slot_keys[m] \in excluded_slots
    /\ C16_Run(1, m - 1) # << >>
    /\ C16_Run(m + 1, Len(slot_keys)) # << >>
    /\ \A i \in DOMAIN slot_keys :
          (i # m /\ slot_keys[i] \in excluded_slots) =>
             \/ C16_Run(1, i - 1) = << >>
             \/ C16_Run(i + 1, Len(slot_keys)) = << >>

(***************************************************************************)
(* C16: find_free_blocks returns, in catalog order, the maximal runs of    *)
(* catalog-adjacent empty non-excluded slots of the day: the groups, none  *)
(* of them empty, list one after the other exactly the day's empty         *)
(* non-excluded slots in catalog order, each once; inside a group every    *)
(* slot is the catalog successor of the one before it, and a group never   *)
(* starts at the catalog successor of the last slot of the group before.   *)
(* On an all-empty day with one excluded slot in the middle the result is  *)
(* the run before it and the run after it.                                 *)
(***************************************************************************)
C16_MaximalFreeRuns ==
    \A d \in Days :
      LET groups == find_free_blocks(tt_frame, d)
          flat   == C16_Flat(groups)
          free   == C16_Free(d)
          ends   == C16_Ends(groups)
      IN  /\ \A k \in DOMAIN groups : groups[k] # << >>
          /\ Len(flat) = Len(free)
          /\ \A p \in DOMAIN flat : flat[p] = slot_keys[free[p]]
          /\ \A p \in 1..(Len(flat) - 1) :
                IF p \in ends THEN free[p + 1] > free[p] + 1
                              ELSE free[p + 1] = free[p] + 1
          /\ C16_AllEmpty(d) =>
                \A m \in DOMAIN slot_keys :
                   C16_OnlyMiddleExclusion(m) =>
                      groups = << C16_Run(1, m - 1),
                                  C16_Run(m + 1, Len(slot_keys)) >>

\* one day is all-empty with an excluded slot in the middle of the catalog,
\* another has a session at the start of a run and a run cut short by it
C16_Witness ==
    /\ \E d \in Days : \E m \in DOMAIN slot_keys :
          /\ C16_AllEmpty(d) /\ C16_OnlyMiddleExclusion(m)
          /\ Len(find_free_blocks(tt_frame, d)) = 2
    /\ \E d \in Days : \E i \in DOMAIN slot_keys :
          /\ tt_frame[d][slot_keys[i]] # ""
          /\ i + 1 \in Range(C16_Free(d))
          /\ Len(find_free_blocks(tt_frame, d)) = 2

\* the cells this step changes
C17_Changed ==
    { ds \in Days \X Range(slot_keys) :
        tt_frame'[ds[1]][ds[2]] # tt_frame[ds[1]][ds[2]] }

(***************************************************************************)
(* C17: a successful place_session(day, ...) changes the cells of one run  *)
(* of catalog-adjacent slots of that day and no other cell; all of them    *)
(* receive the same tag; the Faculty-Day Sets of the other days are        *)
(* unchanged and that of the day gains the faculty or nothing.             *)
(***************************************************************************)
C17_PlacementFootprint ==
    [][ C13_AtDay /\ call'.ret = "true" =>
          LET day == week_days[day_idx]
              places == { C15_Index(ds[2]) : ds \in C17_Changed }
          IN  /\ C17_Changed # {}
              /\ \A ds \in C17_Changed :
                    /\ ds[1] = day
                    /\ tt_frame'[ds[1]][ds[2]] = call'.tag
              /\ \E a, b \in DOMAIN slot_keys : places = a..b
              /\ Cardinality(places) = Cardinality(C17_Changed)
              /\ \A d \in Days \ {day} :
                    faculty_schedule'[d] = faculty_schedule[d]
              /\ \/ faculty_schedule'[day] = faculty_schedule[day]
                 \/ faculty_schedule'[day] =
                       Append(faculty_schedule[day], faculty)
      ]_vars

\* a session of two slots or more was just placed for a named faculty while
\* another day already holds a session
C17_Witness ==
    /\ AtWhile /\ call.ret = "true"
    /\ Len(call.slots) >= 2
    /\ call.faculty # ""
    /\ call.faculty \in Range(faculty_schedule[call.day])
    /\ \E d \in Days \ {call.day} : \E sl \in Range(slot_keys) :
          tt_frame[d][sl] # ""
    /\ \E d \in Days \ {call.day} : faculty_schedule[d] # << >>

\* the course's L-T-P-S-C is not five integers
C18_Malformed(course) ==
    \/ Len(course.LTPSC) # 5
    \/ \E i \in DOMAIN course.LTPSC : ParseInt(Strip(course.LTPSC[i])) < 0

\* the courses of the running call that are not malformed
C18_WellFormed == SelectSeq(mandatory, LAMBDA c : ~C18_Malformed(c))

\* three one-hour slots, one classroom R1, and the only well-formed course
\* is C3 of faculty A with 3-1-0-0-3
C18_Scenario ==
    /\ slot_keys = <<"08:00-09:00", "09:00-10:00", "10:00-11:00">>
    /\ classrooms = <<"R1">>
    /\ Len(C18_WellFormed) = 1
    /\ Strip(C18_WellFormed[1].Course_Code) = "C3"
    /\ Strip(C18_WellFormed[1].Faculty) = "A"
    /\ C18_WellFormed[1].LTPSC = <<"3", "1", "0", "0", "3">>

\* the grid create_timetable saves for the list holding C3 alone
C18_GridOfC3Alone ==
    [d \in Days |->
        [sl \in {"08:00-09:00", "09:00-10:00", "10:00-11:00"} |->
            CASE d \in {"Monday", "Tuesday"} /\ sl # "10:00-11:00"
                    -> "C3 (R1)"
              [] d = "Wednesday" /\ sl = "08:00-09:00" -> "C3T (R1)"
              [] OTHER -> ""]]

(***************************************************************************)
(* C18: a course whose L-T-P-S-C is not five integers is skipped: the step *)
(* that meets it moves on to the next course and changes no grid cell, no  *)
(* Faculty-Day Set and no room binding, and no loop is ever run and no    *)
(* session ever placed for it.  In the scenario the saved grid is that of  *)
(* the list holding C3 alone, wherever in the list a malformed course      *)
(* stands.                                                                 *)
(***************************************************************************)
C18_MalformedCourseSkipped ==
    /\ [][ (/\ pc = "course" /\ ci <= Len(mandatory)
            /\ C18_Malformed(mandatory[ci])) =>
             /\ pc' = "course" /\ ci' = ci + 1
             /\ tt_frame' = tt_frame
             /\ faculty_schedule' = faculty_schedule
             /\ room_allocations' = room_allocations
             /\ sessions' = sessions ]_vars
    /\ [](InLoops => ~C18_Malformed(mandatory[ci]))
    /\ [](\A i \in 1..Len(sessions) :
            ~C18_Malformed(mandatory[sessions[i].course]))
    /\ [](pc = "saved" /\ C18_Scenario => tt_frame = C18_GridOfC3Alone)

\* the scenario with a malformed course before C3 has been saved
C18_Witness ==
    /\ pc = "saved" /\ C18_Scenario
    /\ Len(mandatory) = 2
    /\ C18_Malformed(mandatory[1])
    /\ tt_frame = C18_GridOfC3Alone
    /\ Len(sessions) = 3

\* the sessions of the running call on a day that have a faculty
C19_FacultySessionsOn(day) ==
    { i \in DOMAIN sessions :
        sessions[i].day = day /\ sessions[i].faculty # "" }

(***************************************************************************)
(* C19: the second create_timetable call starts with every grid cell       *)
(* empty, every Faculty-Day Set empty and the Room Allocation Table empty, *)
(* whatever the first call placed; and in either call every occupied cell, *)
(* every Faculty-Day entry and every room binding stems from a session     *)
(* placed by that same call.                                               *)
(***************************************************************************)
C19_FreshStatePerCall ==
    /\ [][ half' # half =>
             /\ half' = 2 /\ pc = "saved" /\ pc' = "course" /\ ci' = 1
             /\ \A d \in Days :
                   /\ \A sl \in Range(slot_keys) : tt_frame'[d][sl] = ""
                   /\ faculty_schedule'[d] = << >>
             /\ DOMAIN room_allocations' = {} ]_vars
    /\ [](/\ \A d \in Days :
              /\ Len(faculty_schedule[d]) =
                    Cardinality(C19_FacultySessionsOn(d))
              /\ \A sl \in Range(slot_keys) :
                    tt_frame[d][sl] # "" =>
                      \E i \in DOMAIN sessions :
                        /\ sessions[i].day = d
                        /\ sl \in Range(sessions[i].slots)
                        /\ sessions[i].tag = tt_frame[d][sl]
          /\ DOMAIN room_allocations =
                { sessions[i].course_code :
                    i \in { j \in DOMAIN sessions :
                              sessions[j].course_code # "Elective" } })

\* the second call is at its start; the first call began with a lecture of
\* a course that has a faculty, with a classroom to bind
C19_Witness ==
    /\ half = 2 /\ pc = "course" /\ ci = 1 /\ sessions = << >>
    /\ classrooms # << >>
    /\ courses_first_half # << >>
    /\ courses_first_half[1].Elective # "1"
    /\ Strip(courses_first_half[1].Faculty) # ""
    /\ ~C18_Malformed(courses_first_half[1])
    /\ ParseInt(Strip(courses_first_half[1].LTPSC[1])) > 0
    /\ courses_second_half # << >>
    /\ \A d \in Days : \A sl \in Range(slot_keys) : tt_frame[d][sl] = ""
    /\ DOMAIN room_allocations = {}

====
